---- MODULE Spec2Model ----
(***************************************************************************)
(* The customer-triage Dashboard: a React component holding the ticket     *)
(* store (useState), the three stage functions, the pipeline orchestrator  *)
(* runPipeline, the ingestion entry point addTicket and the bulk runner    *)
(* runAll.                                                                 *)
(*                                                                         *)
(* A ticket is a record whose optional fields (summary, sentiment,         *)
(* urgency, action) are absent from its DOMAIN until a patch writes them,  *)
(* exactly as the keys of the JavaScript object.  Texts are strings.       *)
(***************************************************************************)
EXTENDS Integers, Sequences, FiniteSets, Bags, TLC

VARIABLES
    store,       \* the React state: the value every queued updater sees as `prev`
    tickets,     \* the `tickets` constant of the last render, read by the handlers
    timers,      \* pending setTimeout callbacks of addTicket, in firing order
    runs,        \* bag of runPipeline invocations suspended at an await
    started,     \* history: how many runs have been started
    overlapped,  \* history: ids for which two runs have been in flight at once
    call         \* a stage function applied on its own (StageSpec)

vars == <<store, tickets, timers, runs, started, overlapped, call>>

-----------------------------------------------------------------------------
(* Bounds of the model *)

MaxTickets == 4       \* Spec: addTicket is not called once the store holds this many
MaxStarts == 3        \* Spec: no run is started once this many have been
MaxBulkTickets == 5   \* BulkSpec: as MaxTickets
MaxBulkStarts == 5    \* BulkSpec: as MaxStarts

-----------------------------------------------------------------------------
(* Strings *)

SummaryLimit == 120

CharAt(s, i) == SubSeq(s, i, i)

\* the characters /\s/ matches among those the model's texts use
IsSpace(c) == c \in {" ", "\t", "\n", "\r", "\f"}

Upper == "ABCDEFGHIJKLMNOPQRSTUVWXYZ"
Lower == "abcdefghijklmnopqrstuvwxyz"

LowerChar(c) ==
    IF \E k \in 1..Len(Upper) : CharAt(Upper, k) = c
    THEN CharAt(Lower, CHOOSE k \in 1..Len(Upper) : CharAt(Upper, k) = c)
    ELSE c

\* the concatenation of piece[lo], ..., piece[hi], by halves
RECURSIVE join(_, _, _)
join(piece, lo, hi) ==
    IF lo > hi THEN ""
    ELSE IF lo = hi THEN piece[lo]
    ELSE LET mid == (lo + hi) \div 2
         IN  join(piece, lo, mid) \o join(piece, mid + 1, hi)

toLowerCase(s) ==
    join([i \in 1..Len(s) |-> LowerChar(CharAt(s, i))], 1, Len(s))

\* s.replace(/\s+/g, " "): every maximal run of whitespace becomes one space
replaceSpaces(s) ==
    join([i \in 1..Len(s) |->
            IF ~IsSpace(CharAt(s, i)) THEN CharAt(s, i)
            ELSE IF i > 1 /\ IsSpace(CharAt(s, i - 1)) THEN "" ELSE " "],
         1, Len(s))

\* s.trim(): from the first to the last character that is not whitespace
trim(s) ==
    LET keep == {i \in 1..Len(s) : ~IsSpace(CharAt(s, i))}
    IN  IF keep = {} THEN ""
        ELSE SubSeq(s, CHOOSE i \in keep : \A j \in keep : i <= j,
                       CHOOSE i \in keep : \A j \in keep : i >= j)

\* RegExp.test for a pattern that is a plain word or phrase
test(pat, s) ==
    \E i \in 1..(Len(s) - Len(pat) + 1) : SubSeq(s, i, i + Len(pat) - 1) = pat

testAny(pats, s) == \E pat \in pats : test(pat, s)

-----------------------------------------------------------------------------
(* Stage functions *)

\* a summarizer that appends the marker to the whole normalized text
summarizeNoSlice(text) ==
    LET s == trim(replaceSpaces(text))
    IN  IF Len(s) > SummaryLimit THEN s \o "..." ELSE s

summarize(text) ==
    LET s == trim(replaceSpaces(text))
    IN  IF Len(s) > SummaryLimit THEN SubSeq(s, 1, SummaryLimit) \o "..." ELSE s

NegativeWords ==
    {"can't", "cannot", "not", "fail", "error", "unable", "broken", "refund",
     "angry", "threaten"}
ThreatWords == {"threaten", "move to another provider", "i'll move", "i will move"}
InabilityWords == {"can't", "cannot", "unable", "fail", "error"}
GratitudeWords == {"thanks", "thank you", "good", "safe", "arrived"}

\* a classifier that tests the inability phrasing before the threat phrasing
analyzeSentimentInabilityFirst(summary) ==
    LET lower == toLowerCase(summary)
    IN  IF testAny(NegativeWords, lower)
        THEN IF testAny(InabilityWords, lower)
             THEN [sentiment |-> "frustrated", urgency |-> "high"]
             ELSE IF testAny(ThreatWords, lower)
                  THEN [sentiment |-> "angry", urgency |-> "critical"]
                  ELSE [sentiment |-> "negative", urgency |-> "high"]
        ELSE IF testAny(GratitudeWords, lower)
             THEN [sentiment |-> "neutral", urgency |-> "low"]
             ELSE [sentiment |-> "neutral", urgency |-> "medium"]

analyzeSentiment(summary) ==
    LET lower == toLowerCase(summary)
    IN  IF testAny(NegativeWords, lower)
        THEN IF testAny(ThreatWords, lower)
             THEN [sentiment |-> "angry", urgency |-> "critical"]
             ELSE IF testAny(InabilityWords, lower)
                  THEN [sentiment |-> "frustrated", urgency |-> "high"]
                  ELSE [sentiment |-> "negative", urgency |-> "high"]
        ELSE IF testAny(GratitudeWords, lower)
             THEN [sentiment |-> "neutral", urgency |-> "low"]
             ELSE [sentiment |-> "neutral", urgency |-> "medium"]

\* arg is the object {urgency?, sentiment?}: a key that is absent is undefined
routeDecisionNoSentiment(arg) ==
    IF "urgency" \in DOMAIN arg /\ arg.urgency \in {"critical", "high"}
    THEN "escalate_to_human"
    ELSE "normal_queue"

routeDecision(arg) ==
    IF \/ ("urgency" \in DOMAIN arg /\ arg.urgency = "critical")
       \/ ("urgency" \in DOMAIN arg /\ arg.urgency = "high")
       \/ ("sentiment" \in DOMAIN arg /\ arg.sentiment = "angry")
    THEN "escalate_to_human"
    ELSE "normal_queue"

-----------------------------------------------------------------------------
(* Ticket store *)

initialTickets ==
    << [id |-> 1,
        text |-> "I tried to pay my bill online but your site kept giving error 500, and the chatbot was no help at all.",
        stage |-> "uploaded"],
       [id |-> 2,
        text |-> "Just wanted to let you know the delivery was late but it arrived safely. Thanks.",
        stage |-> "uploaded"],
       [id |-> 3,
        text |-> "Reset my password 3 times, still can't get access. Please fix this ASAP or I'll move to another provider!",
        stage |-> "uploaded"] >>

\* texts the operator submits: one that is only whitespace, one with content
BlankText == " \n"
AddTexts == {BlankText, "Thanks  for the refund "}

\* every text a ticket of the model can hold
TicketTexts == {initialTickets[i].text : i \in 1..Len(initialTickets)} \cup AddTexts

\* the stage functions' results on the texts and summaries of the model,
\* computed once: summarize(text) and analyzeSentiment(summary)
summaryOf == [text \in TicketTexts |-> summarize(text)]
sentimentOf == [summary \in {summaryOf[text] : text \in TicketTexts} |-> analyzeSentiment(summary)]

\* a merge in which the keys the ticket already has win
mergeKeepOld(t, patch) == t @@ patch

\* { ...t, ...patch }: the keys of patch replace or extend those of t
merge(t, patch) == patch @@ t

\* an updater that does not compare ids
updateTicketAll(prev, id, patch) ==
    [i \in 1..Len(prev) |-> merge(prev[i], patch)]

\* the updater of setTickets in updateTicket: prev.map(...)
updateTicket(prev, id, patch) ==
    [i \in 1..Len(prev) |-> IF prev[i].id = id THEN merge(prev[i], patch) ELSE prev[i]]

\* tks.find((t) => t.id === id): <<t>> for the first match, <<>> for undefined
find(tks, id) ==
    LET hits == {i \in 1..Len(tks) : tks[i].id = id}
    IN  IF hits = {} THEN <<>>
        ELSE <<tks[CHOOSE i \in hits : \A j \in hits : i <= j]>>

\* Math.max(...tks.map((t) => t.id)) of a non-empty list
maxId(tks) ==
    CHOOSE m \in {tks[i].id : i \in 1..Len(tks)} :
        \A i \in 1..Len(tks) : tks[i].id <= m

\* !t.summary || !t.action: undefined and the empty string are both falsy
incomplete(t) ==
    \/ "summary" \notin DOMAIN t
    \/ t.summary = ""
    \/ "action" \notin DOMAIN t
    \/ t.action = ""

-----------------------------------------------------------------------------
(* Pipeline orchestrator.  A run executes from one await to the next without *)
(* interruption; what it does in between is a list of events, in order: a    *)
(* call of updateTicket with a patch, or the invocation of a stage function. *)

Patch(p) == [op |-> "updateTicket", patch |-> p]
Invoke(fn) == [op |-> "invoke", fn |-> fn]

\* a start that sets the marker to the stage after the one it begins
onStartAhead == << Patch([stage |-> "sentiment"]), Invoke("summarize") >>

\* lines 41-42, up to the first await
onStart == << Patch([stage |-> "summarized"]), Invoke("summarize") >>

\* a continuation that moves the marker past a stage
afterSummarizeSkipStage(summary) ==
    << Patch([summary |-> summary]),
       Patch([stage |-> "routed"]),
       Invoke("analyzeSentiment") >>

\* a continuation that writes the marker of the next stage before the result
afterSummarizeMarkerFirst(summary) ==
    << Patch([stage |-> "sentiment"]),
       Patch([summary |-> summary]),
       Invoke("analyzeSentiment") >>

\* lines 43-45, after await summarize
afterSummarize(summary) ==
    << Patch([summary |-> summary]),
       Patch([stage |-> "sentiment"]),
       Invoke("analyzeSentiment") >>

\* a continuation that writes the sentiment and leaves the urgency to a
\* later patch that is never made
afterAnalyzeSentimentAlone(sent) ==
    << Patch([sentiment |-> sent.sentiment]),
       Patch([stage |-> "routed"]),
       Invoke("routeDecision") >>

\* lines 46-48, after await analyzeSentiment
afterAnalyzeSentiment(sent) ==
    << Patch([sentiment |-> sent.sentiment, urgency |-> sent.urgency]),
       Patch([stage |-> "routed"]),
       Invoke("routeDecision") >>

\* a final continuation that drops its patch
afterRouteDecisionNoPatch(action) == << >>

\* line 49, after await routeDecision
afterRouteDecision(action) == << Patch([action |-> action]) >>

\* the store after the updaters queued by the events, in their order
RECURSIVE applyEvents(_, _, _)
applyEvents(prev, id, events) ==
    IF events = <<>> THEN prev
    ELSE applyEvents(
            IF Head(events).op = "updateTicket"
            THEN updateTicket(prev, id, Head(events).patch)
            ELSE prev,
            id, Tail(events))

\* a resolution that does not take the supplied ticket
resolveFromTickets(tks, id, ticketOverride) == find(tks, id)

\* const ticket = ticketOverride || tickets.find(...): <<ticket>> or <<>>
resolve(tks, id, ticketOverride) ==
    IF ticketOverride # <<>> THEN ticketOverride ELSE find(tks, id)

\* a runPipeline without the early return: the patch is queued and the read
\* of ticket.text then throws
runPipelineNoReturn(prev, inflight, tks, id, ticketOverride) ==
    LET ticket == resolve(tks, id, ticketOverride)
    IN  IF ticket = <<>>
        THEN [store |-> applyEvents(prev, id, onStart), runs |-> inflight]
        ELSE [store |-> applyEvents(prev, id, onStart),
              runs  |-> inflight (+) SetToBag({
                          [id |-> id, pc |-> "summarize",
                           summary |-> summaryOf[ticket[1].text],
                           log |-> onStart] })]

\* a runPipeline with an in-flight guard: it returns when a run for the id is
\* in flight
runPipelineGuarded(prev, inflight, tks, id, ticketOverride) ==
    LET ticket == resolve(tks, id, ticketOverride)
    IN  IF ticket = <<>> \/ \E r \in BagToSet(inflight) : r.id = id
        THEN [store |-> prev, runs |-> inflight]
        ELSE [store |-> applyEvents(prev, id, onStart),
              runs  |-> inflight (+) SetToBag({
                          [id |-> id, pc |-> "summarize",
                           summary |-> summaryOf[ticket[1].text],
                           log |-> onStart] })]

\* runPipeline(id, ticketOverride) called in a closure whose `tickets` is tks,
\* up to its first await: the store and the runs in flight that result
runPipeline(prev, inflight, tks, id, ticketOverride) ==
    LET ticket == resolve(tks, id, ticketOverride)
    IN  IF ticket = <<>>
        THEN [store |-> prev, runs |-> inflight]
        ELSE [store |-> applyEvents(prev, id, onStart),
              runs  |-> inflight (+) SetToBag({
                          [id |-> id, pc |-> "summarize",
                           summary |-> summaryOf[ticket[1].text],
                           log |-> onStart] })]

\* a run that is abandoned once the sentiment is known: it patches the
\* sentiment and the marker and does not go on to routeDecision
resumeAbandoned(r) ==
    IF r.pc = "summarize"
    THEN LET ev == afterSummarize(r.summary)
         IN  [events |-> ev,
              next |-> <<[pc |-> "analyzeSentiment",
                          sent |-> sentimentOf[r.summary],
                          log |-> r.log \o ev] @@ r>>]
    ELSE IF r.pc = "analyzeSentiment"
    THEN [events |-> afterAnalyzeSentiment(r.sent), next |-> <<>>]
    ELSE [events |-> afterRouteDecision(r.action), next |-> <<>>]

\* a run resumed after its await: the events it performs and what becomes of it
resume(r) ==
    IF r.pc = "summarize"
    THEN LET ev == afterSummarize(r.summary)
         IN  [events |-> ev,
              next |-> <<[pc |-> "analyzeSentiment",
                          sent |-> sentimentOf[r.summary],
                          log |-> r.log \o ev] @@ r>>]
    ELSE IF r.pc = "analyzeSentiment"
    THEN LET ev == afterAnalyzeSentiment(r.sent)
         IN  [events |-> ev,
              next |-> <<[pc |-> "routeDecision",
                          action |-> routeDecision([urgency |-> r.sent.urgency,
                                                    sentiment |-> r.sent.sentiment]),
                          log |-> r.log \o ev] @@ r>>]
    ELSE [events |-> afterRouteDecision(r.action), next |-> <<>>]

inFlight == BagCardinality(runs)

\* the ids that have two runs in flight
sameIdRuns(inflight) ==
    {i \in {r.id : r \in BagToSet(inflight)} :
        BagCardinality([r \in {q \in BagToSet(inflight) : q.id = i} |-> inflight[r]]) > 1}

-----------------------------------------------------------------------------
(* The Dashboard: state and handlers *)

\* ids the operator may ask a run for: those tickets can have, and one none has
RunIds == 1..(MaxTickets + 1)

idle == [pc |-> "idle"]

Init ==
    /\ store = initialTickets
    /\ tickets = initialTickets
    /\ timers = <<>>
    /\ runs = EmptyBag
    /\ started = 0
    /\ overlapped = {}
    /\ call = idle

History ==
    /\ started' = started + IF BagCardinality(runs') > inFlight
                            THEN BagCardinality(runs') - inFlight ELSE 0
    /\ overlapped' = overlapped \cup sameIdRuns(runs')

\* addTicket(text)
Add(text) ==
    /\ LET id == IF Len(tickets) # 0 THEN maxId(tickets) + 1 ELSE 1
           newTicket == [id |-> id, text |-> text, stage |-> "uploaded"]
       IN  /\ store' = <<newTicket>> \o store
           /\ timers' = Append(timers, [id |-> id, newTicket |-> newTicket])
    /\ UNCHANGED <<tickets, runs, started, overlapped, call>>

\* React renders the component again: the handlers now close over the state.
\* The updates a handler queues are committed when the handler's task ends
\* (Render); until then further handler calls of that task read the same
\* `tickets`.  The updates of a timer callback or of a resumed run are
\* committed with that step.
Render ==
    /\ tickets # store
    /\ tickets' = store
    /\ UNCHANGED <<store, timers, runs, started, overlapped, call>>

\* the callback of setTimeout in addTicket: runPipeline(id, newTicket).  The
\* ticketOverride it passes is an object, so `tickets` is not consulted.
TimerFire ==
    /\ timers # <<>>
    /\ LET t == Head(timers)
           res == runPipeline(store, runs, tickets, t.id, <<t.newTicket>>)
       IN  /\ store' = res.store
           /\ runs' = res.runs
    /\ timers' = Tail(timers)
    /\ tickets' = store'
    /\ History
    /\ UNCHANGED call

\* onRun of TicketList: runPipeline(id)
Run(id) ==
    /\ LET res == runPipeline(store, runs, tickets, id, <<>>)
       IN  /\ store' = res.store
           /\ runs' = res.runs
    /\ History
    /\ UNCHANGED <<tickets, timers, call>>

\* tickets.forEach((t) => { if (!t.summary || !t.action) runPipeline(t.id); })
RECURSIVE forEach(_, _, _, _)
forEach(prev, inflight, tks, i) ==
    IF i > Len(tks) THEN [store |-> prev, runs |-> inflight]
    ELSE IF incomplete(tks[i])
    THEN LET res == runPipeline(prev, inflight, tks, tks[i].id, <<>>)
         IN  forEach(res.store, res.runs, tks, i + 1)
    ELSE forEach(prev, inflight, tks, i + 1)

runAll(prev, inflight, tks) == forEach(prev, inflight, tks, 1)

RunAll ==
    /\ LET res == runAll(store, runs, tickets)
       IN  /\ store' = res.store
           /\ runs' = res.runs
    /\ History
    /\ UNCHANGED <<tickets, timers, call>>

\* the promise a run awaits settles and the run goes on to its next await
Resume(r) ==
    /\ r \in BagToSet(runs)
    /\ LET res == resume(r)
       IN  /\ store' = applyEvents(store, r.id, res.events)
           /\ runs' = (runs (-) SetToBag({r})) (+) SetToBag({res.next[i] : i \in 1..Len(res.next)})
    /\ tickets' = store'
    /\ History
    /\ UNCHANGED <<timers, call>>

\* how many runs a call of runAll would start
eligible == Cardinality({i \in 1..Len(tickets) : incomplete(tickets[i])})

\* the runs started so far and those the pending timers will start
budget == started + Len(timers)

\* the operator adds tickets (of blank text), runs single tickets and runs
\* all; the timers fire and the runs in flight resume in any order
Next ==
    \/ \E text \in {BlankText} : Len(store) < MaxTickets /\ budget < MaxStarts /\ Add(text)
    \/ Render
    \/ TimerFire
    \/ \E id \in RunIds : budget < MaxStarts /\ Run(id)
    \/ budget + eligible <= MaxStarts /\ RunAll
    \/ \E r \in BagToSet(runs) : Resume(r)

Spec == Init /\ [][Next]_vars

\* every timer fires and every run in flight resumes
Fairness ==
    /\ WF_vars(Render)
    /\ WF_vars(TimerFire)
    /\ WF_vars(\E r \in BagToSet(runs) : Resume(r))

FairSpec == Spec /\ Fairness

\* the operator only adds tickets (of either text) and runs all
BulkNext ==
    \/ \E text \in AddTexts : Len(store) < MaxBulkTickets /\ budget < MaxBulkStarts /\ Add(text)
    \/ Render
    \/ TimerFire
    \/ budget + eligible <= MaxBulkStarts /\ RunAll
    \/ \E r \in BagToSet(runs) : Resume(r)

BulkSpec == Init /\ [][BulkNext]_vars

-----------------------------------------------------------------------------
(* The stage functions on their own: an input is drawn, then summarize,     *)
(* analyzeSentiment and routeDecision are applied as runPipeline chains     *)
(* them; routeDecision is also applied to every {urgency?, sentiment?}.     *)

Leads == {"", " \t", "Hi,\n"}
Cores ==
    {"", "I'll move", "I WILL move", "you threaten us", "cannot  pay",
     "want a refund", "no help"}
Tails == {"", " thanks", ", arrived  safe \n"}

\* a text longer than SummaryLimit once normalized
LongText == join([i \in 1..14 |-> "so  slow, "], 1, 14)

\* two complaints pasted into one text, cut inside a word once normalized
PastedText == initialTickets[1].text \o " \n\n " \o initialTickets[3].text

StageTexts ==
    TicketTexts \cup {LongText, PastedText}
        \cup {a \o b \o c : a \in Leads, b \in Cores, c \in Tails}

Urgencies == {"low", "medium", "high", "critical"}
Sentiments == {"neutral", "negative", "frustrated", "angry"}

\* the objects with the key or without it
optional(key, values) == {<<>>} \cup {[k \in {key} |-> v] : v \in values}

RouteArgs ==
    {u @@ s : u \in optional("urgency", Urgencies), s \in optional("sentiment", Sentiments)}

StageInit ==
    /\ store = initialTickets
    /\ tickets = initialTickets
    /\ timers = <<>>
    /\ runs = EmptyBag
    /\ started = 0
    /\ overlapped = {}
    /\ call \in {[pc |-> "summarize", text |-> t] : t \in StageTexts}
                \cup {[pc |-> "routeDecision", arg |-> a] : a \in RouteArgs}

CallSummarize ==
    /\ call.pc = "summarize"
    /\ call' = [pc |-> "analyzeSentiment", summary |-> summarize(call.text)] @@ call
    /\ UNCHANGED <<store, tickets, timers, runs, started, overlapped>>

CallAnalyzeSentiment ==
    /\ call.pc = "analyzeSentiment"
    /\ LET sent == analyzeSentiment(call.summary)
       IN  call' = [pc |-> "routeDecision", sent |-> sent,
                    arg |-> [urgency |-> sent.urgency, sentiment |-> sent.sentiment]] @@ call
    /\ UNCHANGED <<store, tickets, timers, runs, started, overlapped>>

CallRouteDecision ==
    /\ call.pc = "routeDecision"
    /\ call' = [pc |-> "done", action |-> routeDecision(call.arg)] @@ call
    /\ UNCHANGED <<store, tickets, timers, runs, started, overlapped>>

StageNext == CallSummarize \/ CallAnalyzeSentiment \/ CallRouteDecision

StageSpec == StageInit /\ [][StageNext]_vars

-----------------------------------------------------------------------------
(* Properties *)

\* the k-th ticket of st in order of arrival (new tickets are put in front)
At(st, k) == st[Len(st) + 1 - k]

DerivedFields == {"summary", "sentiment", "urgency", "action"}
populated(t) == DerivedFields \subseteq DOMAIN t

StageOrder == <<"uploaded", "summarized", "sentiment", "routed">>
rank(stage) == CHOOSE n \in 1..Len(StageOrder) : StageOrder[n] = stage

\* the runs with this id in a bag of runs
runsOf(inflight, id) == {r \in BagToSet(inflight) : r.id = id}

\* r completes in this step: it awaited routeDecision and is no longer in flight
completes(r) == r.pc = "routeDecision" /\ CopiesIn(r, runs') < CopiesIn(r, runs)

\* a run with this id starts in this step
starts(id) ==
    \E r \in runsOf(runs', id) :
        r.pc = "summarize" /\ CopiesIn(r, runs') > CopiesIn(r, runs)

routedAndPopulated(st, id) ==
    \A k \in 1..Len(st) : st[k].id = id => st[k].stage = "routed" /\ populated(st[k])

\* C1 as stated: whenever a run completes, whatever other runs are in flight,
\* the tickets with its id are at stage routed with summary, sentiment,
\* urgency and action present.
C1_Original ==
    [][\A r \in BagToSet(runs) : completes(r) => routedAndPopulated(store', r.id)]_vars

\* C1 amended: whenever a run completes while no other run for the same id is
\* in flight, the tickets with its id are at stage routed with summary,
\* sentiment, urgency and action present.
C1_RunCompletes ==
    [][\A r \in BagToSet(runs) :
          completes(r) /\ runsOf(runs', r.id) = {} => routedAndPopulated(store', r.id)]_vars

\* a ticket whose run has completed, with no run for its id in flight
C1_Witness ==
    \E k \in 1..Len(store) :
        /\ "action" \in DOMAIN store[k]
        /\ store[k].stage = "routed"
        /\ runsOf(runs, store[k].id) = {}

\* C2: after any sequence of add calls, several of them before `tickets` is
\* refreshed included, the tickets of the store have distinct ids.
C2_DistinctIds ==
    \A i, j \in 1..Len(store) : i # j => store[i].id # store[j].id

\* C3 as stated: while no two runs for a ticket's id have overlapped, a step
\* leaves the ticket's stage where it is or moves it to the next stage.
C3_Original ==
    [][\A k \in 1..Len(store) :
          At(store, k).id \notin overlapped' =>
              \/ At(store', k).stage = At(store, k).stage
              \/ rank(At(store', k).stage) = rank(At(store, k).stage) + 1]_vars

\* C3 amended: while no two runs for a ticket's id have overlapped, a step
\* leaves the ticket's stage where it is or moves it to the next stage, except
\* that the start of a run for the ticket sets it to summarized whatever it was.
C3_StageSteps ==
    [][\A k \in 1..Len(store) :
          At(store, k).id \notin overlapped' =>
              \/ At(store', k).stage = At(store, k).stage
              \/ rank(At(store', k).stage) = rank(At(store, k).stage) + 1
              \/ At(store', k).stage = "summarized" /\ starts(At(store, k).id)]_vars

\* a ticket already processed whose new run has set the marker back
C3_Witness ==
    \E k \in 1..Len(store) :
        /\ populated(store[k])
        /\ store[k].stage = "summarized"
        /\ store[k].id \notin overlapped

\* no timer is pending and no run is in flight
quiet == timers = <<>> /\ runs = EmptyBag

\* C4: when every ticket has had a run complete (it has an action) and no run
\* is pending or in flight, runAll starts no run and leaves the store as it is.
C4_RunAllNoOp ==
    (quiet /\ \A k \in 1..Len(store) : "action" \in DOMAIN store[k])
    => runAll(store, runs, tickets) = [store |-> store, runs |-> runs]

\* what an event of a run's log is
shape(e) ==
    IF e.op = "invoke" THEN "invoke " \o e.fn
    ELSE IF DOMAIN e.patch = {"stage"} THEN "stage " \o e.patch.stage
    ELSE IF DOMAIN e.patch = {"summary"} THEN "summary"
    ELSE IF DOMAIN e.patch = {"sentiment", "urgency"} THEN "sentiment urgency"
    ELSE IF DOMAIN e.patch = {"action"} THEN "action"
    ELSE "other"

PatchOrder ==
    << "stage summarized", "invoke summarize", "summary",
       "stage sentiment", "invoke analyzeSentiment", "sentiment urgency",
       "stage routed", "invoke routeDecision" >>

logInOrder(r) ==
    /\ Len(r.log) = (IF r.pc = "summarize" THEN 2
                     ELSE IF r.pc = "analyzeSentiment" THEN 5 ELSE 8)
    /\ \A i \in 1..Len(r.log) : shape(r.log[i]) = PatchOrder[i]

\* C5: a run patches stage := summarized, invokes the Summarizer, patches
\* summary, stage := sentiment, invokes the Sentiment Classifier, patches
\* sentiment with urgency, stage := routed, invokes the Router, in this order;
\* the step that completes it patches the action alone.
C5_PatchOrder ==
    [][/\ \A r \in BagToSet(runs') : logInOrder(r)
       /\ \A r \in BagToSet(runs) :
             completes(r) =>
                 \A k \in 1..Len(store) :
                     store'[k] = IF store[k].id = r.id
                                 THEN [action |-> r.action] @@ store[k]
                                 ELSE store[k]]_vars

\* a run that has made all its patches but the last
C5_Witness ==
    \E r \in BagToSet(runs) : r.pc = "routeDecision" /\ Len(r.log) = 8

\* the snapshot's tickets with this id that lack a summary or lack an action
lacking(tks, id) ==
    {k \in 1..Len(tks) :
        tks[k].id = id /\ ("summary" \notin DOMAIN tks[k] \/ "action" \notin DOMAIN tks[k])}

\* how many more runs with this id are in flight after the step
startedFor(id) ==
    BagCardinality([r \in runsOf(runs', id) |-> runs'[r]])
        - BagCardinality([r \in runsOf(runs, id) |-> runs[r]])

\* C6: a call of runAll starts one run for each ticket of `tickets` that lacks
\* a summary or lacks an action, and no other run.
C6_OneRunEach ==
    [][RunAll =>
          \A id \in {store[k].id : k \in 1..Len(store)} :
              startedFor(id) = Cardinality(lacking(tickets, id))]_vars

\* C7: every ticket added by addTicket is eventually at stage routed with
\* summary, sentiment, urgency and action present.
C7_AddedIsProcessed ==
    \A k \in (Len(initialTickets) + 1)..MaxTickets :
        (Len(store) >= k) ~>
            (Len(store) >= k /\ At(store, k).stage = "routed" /\ populated(At(store, k)))

\* an added ticket that the deferred run has processed
C7_Witness ==
    /\ Len(store) > Len(initialTickets)
    /\ At(store, Len(initialTickets) + 1).stage = "routed"
    /\ populated(At(store, Len(initialTickets) + 1))

\* the patches runPipeline issues, on sample values
SamplePatches ==
    { [stage |-> "summarized"], [summary |-> "x"],
      [sentiment |-> "angry", urgency |-> "critical"], [action |-> "normal_queue"] }

\* C8: runPipeline(id) for an id that `tickets` does not resolve changes
\* neither the store nor the runs in flight, and a patch addressed to an id no
\* ticket of the store has leaves the store as it is.
C8_SilentAbort ==
    \A id \in RunIds :
        /\ find(tickets, id) = <<>> =>
              runPipeline(store, runs, tickets, id, <<>>) = [store |-> store, runs |-> runs]
        /\ find(store, id) = <<>> =>
              \A p \in SamplePatches : updateTicket(store, id, p) = store

\* an id the store holds and `tickets` does not resolve, after runs have started
C8_Witness ==
    \E id \in RunIds :
        find(tickets, id) = <<>> /\ find(store, id) # <<>> /\ started > 0

\* what a run alone makes of a ticket
alone(t) ==
    LET summary == summaryOf[t.text]
        sent == sentimentOf[summary]
    IN  [stage |-> "routed", summary |-> summary,
         sentiment |-> sent.sentiment, urgency |-> sent.urgency,
         action |-> routeDecision([urgency |-> sent.urgency, sentiment |-> sent.sentiment])] @@ t

\* C9: a step changes a ticket only if a run for the ticket's id starts,
\* resumes or completes in it; and once all runs are over, a ticket that has
\* its id to itself and was run is as a run alone would have left it.
C9_Independent ==
    [][/\ \A k \in 1..Len(store) :
             At(store', k) # At(store, k) =>
                 \E r \in runsOf(runs, At(store, k).id) \cup runsOf(runs', At(store, k).id) :
                     CopiesIn(r, runs) # CopiesIn(r, runs')
       /\ quiet' =>
             \A k \in 1..Len(store') :
                 (/\ store'[k].stage # "uploaded"
                  /\ \A j \in 1..Len(store') : j # k => store'[j].id # store'[k].id)
                 => store'[k] = alone(store'[k])]_vars

\* two runs for different ids in flight, each past its first await
C9_Witness ==
    \E r1, r2 \in BagToSet(runs) :
        r1.id # r2.id /\ r1.pc # "summarize" /\ r2.pc # "summarize"

escalates(arg) ==
    \/ "urgency" \in DOMAIN arg /\ arg.urgency \in {"critical", "high"}
    \/ "sentiment" \in DOMAIN arg /\ arg.sentiment = "angry"

\* C10: the Router returns escalate_to_human when urgency is critical or
\* high or sentiment is angry, and normal_queue otherwise.
C10_Router ==
    call.pc = "done" =>
        /\ escalates(call.arg) => call.action = "escalate_to_human"
        /\ ~escalates(call.arg) => call.action = "normal_queue"

\* the Router applied to an angry sentiment with no urgency
C10_Witness ==
    /\ call.pc = "done"
    /\ "urgency" \notin DOMAIN call.arg
    /\ "sentiment" \in DOMAIN call.arg
    /\ call.arg.sentiment = "angry"

\* C11: whenever the Sentiment Classifier is given a summary that contains a
\* threat-to-leave phrase and a gratitude phrase, it returns sentiment angry
\* and urgency critical.
C11_ThreatFirst ==
    (/\ "sent" \in DOMAIN call
     /\ testAny(ThreatWords, toLowerCase(call.summary))
     /\ testAny(GratitudeWords, toLowerCase(call.summary)))
    => call.sent = [sentiment |-> "angry", urgency |-> "critical"]

\* C12: the Summarizer applied to a summary it has produced returns that
\* summary, whether or not the summary was truncated.
C12_Idempotent ==
    "summary" \in DOMAIN call => summarize(call.summary) = call.summary

\* a summary that was truncated and carries the marker
C12_Witness ==
    /\ "summary" \in DOMAIN call
    /\ Len(call.summary) = SummaryLimit + 3
    /\ call.summary # call.text

\* what the three seed tickets are to be classified and routed as
SeedResults ==
    << [sentiment |-> "frustrated", urgency |-> "high", action |-> "escalate_to_human"],
       [sentiment |-> "neutral", urgency |-> "low", action |-> "normal_queue"],
       [sentiment |-> "angry", urgency |-> "critical", action |-> "escalate_to_human"] >>

\* C13: a seed ticket on which a run has completed (it has an action) has the
\* sentiment, urgency and action listed for it: ticket 1 frustrated, high,
\* escalate_to_human; ticket 2 neutral, low, normal_queue; ticket 3 angry,
\* critical, escalate_to_human.
C13_SeedResults ==
    \A k \in 1..Len(initialTickets) :
        LET t == At(store, Len(initialTickets) + 1 - k)
        IN  /\ t.id = k
            /\ t.text = initialTickets[k].text
            /\ "action" \in DOMAIN t =>
                  /\ "sentiment" \in DOMAIN t /\ t.sentiment = SeedResults[k].sentiment
                  /\ "urgency" \in DOMAIN t /\ t.urgency = SeedResults[k].urgency
                  /\ t.action = SeedResults[k].action

\* the three seed tickets, each run to completion
C13_Witness ==
    /\ quiet
    /\ \A k \in 1..Len(initialTickets) :
          LET t == At(store, Len(initialTickets) + 1 - k)
          IN  "action" \in DOMAIN t /\ t.stage = "routed"

\* the patch p addressed to id, applied to st, sets the fields p names on the
\* tickets whose id is id and changes nothing else
patchFrame(st, id, p) ==
    LET out == updateTicket(st, id, p)
    IN  /\ Len(out) = Len(st)
        /\ \A i \in 1..Len(st) :
              IF st[i].id = id
              THEN /\ DOMAIN out[i] = DOMAIN st[i] \cup DOMAIN p
                   /\ \A f \in DOMAIN out[i] :
                         out[i][f] = IF f \in DOMAIN p THEN p[f] ELSE st[i][f]
              ELSE out[i] = st[i]

\* C14: a patch sets the fields it names on the tickets whose id matches and
\* changes nothing else; and in every step of add, run and runAll no ticket
\* leaves the store, the tickets keep their order, their id and their text,
\* and a field a ticket has is not removed.
C14_Frame ==
    [][/\ \A id \in RunIds : \A p \in SamplePatches : patchFrame(store, id, p)
       /\ Len(store') >= Len(store)
       /\ \A k \in 1..Len(store) :
             /\ At(store', k).id = At(store, k).id
             /\ At(store', k).text = At(store, k).text
             /\ DOMAIN At(store, k) \subseteq DOMAIN At(store', k)]_vars

\* a store that has grown by a ticket and in which a ticket has been patched
\* by every step of a run
C14_Witness ==
    /\ Len(store) > Len(initialTickets)
    /\ \E k \in 1..Len(store) : populated(store[k]) /\ store[k].id <= Len(initialTickets)

\* C15: runs for one id are not synchronized: whatever runs are in flight,
\* runPipeline(id) for an id that `tickets` resolves starts one more run and
\* sets the stage of the tickets with that id to summarized.
C15_NotSynchronized ==
    \A id \in RunIds :
        find(tickets, id) # <<>> =>
            LET res == runPipeline(store, runs, tickets, id, <<>>)
            IN  /\ BagCardinality(res.runs) = inFlight + 1
                /\ \A k \in 1..Len(store) :
                      store[k].id = id => res.store[k].stage = "summarized"

\* a run that has set the marker to sentiment or routed is unfinished, a later
\* run for the same id has just started, and the marker is back at summarized
C15_Witness ==
    \E r1, r2 \in BagToSet(runs) :
        /\ r1.id = r2.id
        /\ r1.pc \in {"analyzeSentiment", "routeDecision"}
        /\ r2.pc = "summarize"
        /\ \E k \in 1..Len(store) :
              /\ store[k].id = r1.id
              /\ store[k].stage = "summarized"
              /\ "summary" \in DOMAIN store[k]

\* the await that follows an await of a run
nextAwait(pc) == IF pc = "summarize" THEN "analyzeSentiment" ELSE "routeDecision"

\* the patches among the events of a log
patchesOf(log) == {i \in 1..Len(log) : log[i].op = "updateTicket"}

\* r leaves its await in this step in the way of the code: after routeDecision
\* it has made five patches and the step applies the sixth, the action; after
\* another await a run for the same id is at the next await, having added to
\* the log of r the events the step applies to the store
proceeds(r) ==
    IF r.pc = "routeDecision"
    THEN /\ Cardinality(patchesOf(r.log)) = 5
         /\ store' = updateTicket(store, r.id, [action |-> r.action])
    ELSE \E q \in runsOf(runs', r.id) :
            /\ q.pc = nextAwait(r.pc)
            /\ CopiesIn(q, runs') > CopiesIn(q, runs)
            /\ Len(q.log) = Len(r.log) + 3
            /\ SubSeq(q.log, 1, Len(r.log)) = r.log
            /\ store' = applyEvents(store, r.id, SubSeq(q.log, Len(r.log) + 1, Len(q.log)))

\* C16: a run in flight leaves an await only by going on to its next step, so
\* that it finishes only after its six patches, whatever add, run and runAll
\* do meanwhile; and under fair scheduling, whenever runs are in flight, a
\* state follows in which every one of them has finished.
C16_NoCancellation ==
    /\ [][\A r \in BagToSet(runs) : CopiesIn(r, runs') < CopiesIn(r, runs) => proceeds(r)]_vars
    /\ (runs # EmptyBag) ~> (runs = EmptyBag)

\* every run has finished, runs for one id that overlapped and the deferred
\* run of an added ticket among them
C16_Witness ==
    /\ quiet
    /\ overlapped # {}
    /\ Len(store) > Len(initialTickets)
    /\ \A k \in 1..Len(store) : store[k].stage # "uploaded" => "action" \in DOMAIN store[k]
    /\ \E k \in 1..Len(store) : store[k].id \in overlapped /\ "action" \in DOMAIN store[k]

\* C17: in every reachable state a ticket has a sentiment if and only if it
\* has an urgency, and every patch a run has made names both or neither.
C17_CoAssigned ==
    /\ \A k \in 1..Len(store) :
          "sentiment" \in DOMAIN store[k] <=> "urgency" \in DOMAIN store[k]
    /\ \A r \in BagToSet(runs) : \A i \in patchesOf(r.log) :
          "sentiment" \in DOMAIN r.log[i].patch <=> "urgency" \in DOMAIN r.log[i].patch

\* a ticket classified by a run that has not finished, next to one no run has
\* classified
C17_Witness ==
    /\ \E r \in BagToSet(runs) :
          /\ r.pc = "routeDecision"
          /\ \E k \in 1..Len(store) :
                /\ store[k].id = r.id
                /\ "sentiment" \in DOMAIN store[k]
                /\ "urgency" \in DOMAIN store[k]
                /\ "action" \notin DOMAIN store[k]
    /\ \E k \in 1..Len(store) : "sentiment" \notin DOMAIN store[k]

\* C18: once no run is pending or in flight, a ticket for whose id runs have
\* overlapped is at stage routed with the summary, sentiment, urgency and
\* action a single run alone produces from the ticket's text.
C18_Converge ==
    quiet =>
        \A k \in 1..Len(store) :
            (store[k].id \in overlapped /\ store[k].stage # "uploaded")
            => store[k] = alone(store[k])

has(t, field) == field \in DOMAIN t

\* C19: in every reachable state, of every ticket: at stage uploaded it has no
\* derived field; if it has an action it has a sentiment and an urgency; if it
\* has a sentiment it has a summary; at stage sentiment or routed it has a
\* summary; at stage routed it has a sentiment and an urgency.
C19_StageConsistent ==
    \A k \in 1..Len(store) :
        LET t == store[k]
        IN  /\ t.stage = "uploaded" => DOMAIN t \cap DerivedFields = {}
            /\ has(t, "action") => has(t, "sentiment") /\ has(t, "urgency")
            /\ has(t, "sentiment") => has(t, "summary")
            /\ t.stage \in {"sentiment", "routed"} => has(t, "summary")
            /\ t.stage = "routed" => has(t, "sentiment") /\ has(t, "urgency")

\* a ticket run before is run again by two runs that overlap: one has set the
\* marker to sentiment while the other is at its first await, and the fields
\* of the earlier run are still there
C19_Witness ==
    \E k \in 1..Len(store) :
        /\ store[k].stage = "sentiment"
        /\ has(store[k], "action")
        /\ \E r1, r2 \in runsOf(runs, store[k].id) :
              r1.pc = "summarize" /\ r2.pc = "analyzeSentiment"

====
